---- MODULE Spec2Model ----
(***************************************************************************)
(* Model of the AudioRecorder component                                    *)
(* (src/src/components/AudioRecorder/AudioRecorder.tsx).                   *)
(*                                                                         *)
(* React state is kept twice: `state` is the value the queued updaters     *)
(* have produced so far, `rendered` is the value of the last committed     *)
(* render, which is what every handler closure reads as `state.xxx`.       *)
(* Handlers run from a DOM click are followed at once by the render React  *)
(* flushes at the end of a discrete event (flushPending); promise          *)
(* continuations, media callbacks and calls through the imperative handle  *)
(* are rendered by a later Render step.                                    *)
(*                                                                         *)
(* Every call of requestPermissionAndStart opens a session                 *)
(* s \in 1..MaxStarts; the stream, recorder, audio context and processor   *)
(* node created for that request are the session's objects, and the refs   *)
(* hold a session number (0 is null).                                      *)
(***************************************************************************)
EXTENDS Integers, Sequences, FiniteSets, TLC

\* ------------------------------------------------------------- bounds
MaxStarts == 2
MaxChunks == 2
MaxEncodes == 1
MaxPos == 1
MaxProbes == 2

Sessions == 1..MaxStarts
Encodes == 1..MaxEncodes

\* ------------------------------------------------------------- values
Statuses == {"idle", "permission_pending", "recording", "stopped", "error"}

NullBlob == [type |-> "null", parts |-> <<>>]

InitialState ==
    [status |-> "idle", audioBlob |-> NullBlob, audioURL |-> 0,
     errorMessage |-> "null", isProcessing |-> FALSE]

VARIABLES
    \* host environment, fixed for a behaviour
    isSecureContext,     \* window.isSecureContext || https || localhost
    hasGetUserMedia,     \* navigator.mediaDevices && .getUserMedia
    hasMediaRecorder,    \* window.MediaRecorder
    \* React
    mounted,             \* the mount effects have run
    state,               \* useState<AudioRecorderState>: latest value
    rendered,            \* the state value of the last committed render
    flushPending,        \* a discrete event handler returned: render now
    \* refs
    mediaRecorderRef, audioChunksRef, audioContextRef, mediaStreamRef,
    sourceNodeRef, processorRef, pcmBuffersRef, captureModeRef,
    \* sessions: one per getUserMedia call
    nStarts,             \* calls of requestPermissionAndStart so far
    pc,                  \* position of each requestPermissionAndStart call
    track,               \* the session's stream tracks: none | live | ended
    rec,                 \* the session's MediaRecorder: none|recording|inactive
    stopEvt,             \* the recorder's dataavailable+stop task is queued
    proc,                \* source/processor nodes: none|connected|disconnected
    ctx,                 \* AudioContext: none|running|suspended|closed
    \* object URLs
    nURL,                \* URL.createObjectURL calls so far
    liveURLs,            \* created and not revoked
    \* observers and host errors
    onErrorCount,        \* calls of the onError prop
    recStopFailed,       \* MediaRecorder.stop() was invoked on an inactive recorder
    \* playback
    isPlaying, playbackSec, playbackRafIdRef, elPaused, elTime, playAwait,
    sinceEnded,          \* handleAudioEnded ran and no play event followed on the element
    \* MP3 encodes (handleSave / uploadMp3)
    nEncodes,            \* calls that reached getMp3Blob so far
    enc                  \* position of each of them

envVars == <<isSecureContext, hasGetUserMedia, hasMediaRecorder>>
reactVars == <<mounted, state, rendered, flushPending>>
refVars == <<mediaRecorderRef, audioChunksRef, audioContextRef, mediaStreamRef,
             sourceNodeRef, processorRef, pcmBuffersRef, captureModeRef>>
sessVars == <<nStarts, pc, track, rec, stopEvt, proc, ctx>>
urlVars == <<nURL, liveURLs>>
obsVars == <<onErrorCount, recStopFailed>>
playVars == <<isPlaying, playbackSec, playbackRafIdRef, elPaused, elTime, playAwait,
              sinceEnded>>

encVars == <<nEncodes, enc>>

VARIABLES
    \* the WAV encoders on their own: a web-audio capture and its artifact
    wavChunks,           \* the Float32Array chunks pushed by onaudioprocess
    wavSampleRate,       \* audioContext.sampleRate
    wavBuilt,            \* the artifact was built
    wavBytes,            \* bytes of buildWavFromFloat32's Blob
    vmWavBytes           \* bytes of encodeWAV's Blob (VoiceMessageRecorder)

wavVars == <<wavChunks, wavSampleRate, wavBuilt, wavBytes, vmWavBytes>>

VARIABLES
    \* getMp3Blob on its own: one call and what it hands to the encoder
    mp3Pc,               \* idle|decoding|codec|frames|returned|delivered|failed
    mp3Kind,             \* the caller: save | upload | handle
    mp3Len,              \* audioBuffer.length, samples per channel
    mp3Pat,              \* which sample pattern the decoded channels hold
    mp3NumChannels,      \* audioBuffer.numberOfChannels
    leftInt16,           \* the two Int16Array of getMp3Blob
    rightInt16,
    mp3I,                \* the loop variable i of the frame loop
    mp3Calls,            \* the encoder operations invoked, in order
    mp3Chunks,           \* mp3Chunks of getMp3Blob
    mp3Blob,             \* bytes of the returned Blob
    mp3Files,            \* calls of onSave / onUpload with a file
    mp3Cause             \* why the call failed: none | decode | codec

mp3Vars == <<mp3Pc, mp3Kind, mp3Len, mp3Pat, mp3NumChannels, leftInt16,
             rightInt16, mp3I, mp3Calls, mp3Chunks, mp3Blob, mp3Files, mp3Cause>>

\* the variables of the encoders, which no handler of the recorder changes
codecVars == <<wavVars, mp3Vars>>

VARIABLES
    \* what the effects of a commit leave behind
    onStatusChange,      \* arguments of the last call of the onStatusChange prop
    \* the recording timer
    maxDurationSeconds,  \* the prop; 0 when it is not passed
    elapsedSec,          \* useState<number>: latest value
    elapsedRendered,     \* elapsedSec of the last committed render
    timerId,             \* the 500 ms interval is registered (startedAtRef is set)
    sinceStart,          \* Date.now() - startedAtRef.current, in half seconds
    unmounted,           \* the component was removed and its effects cleaned up
    \* the duration of the loaded artifact
    hostFinite,          \* the host reports a finite duration with the metadata
    elDuration,          \* el.duration: "NaN" | "Infinity" | "zero" | "finite"
    durationSec,         \* useState<number>
    seekedListeners      \* handleSeeked closures registered on the element

timerVars == <<maxDurationSeconds, elapsedSec, elapsedRendered, timerId, sinceStart>>
effectVars == <<onStatusChange, timerVars, unmounted>>
probeVars == <<hostFinite, elDuration, durationSec, seekedListeners>>

vars == <<envVars, reactVars, refVars, sessVars, urlVars, obsVars, playVars, encVars,
          codecVars, effectVars, probeVars, probeVars>>

\* ------------------------------------------------------------- Init
NoEncode == [pc |-> "none", kind |-> "none", blob |-> NullBlob]

InitRecorder ==
    /\ isSecureContext \in BOOLEAN
    /\ hasGetUserMedia \in BOOLEAN
    /\ hasMediaRecorder \in BOOLEAN
    /\ mounted = FALSE
    /\ state = InitialState
    /\ rendered = InitialState
    /\ flushPending = FALSE
    /\ mediaRecorderRef = 0
    /\ audioChunksRef = <<>>
    /\ audioContextRef = 0
    /\ mediaStreamRef = 0
    /\ sourceNodeRef = 0
    /\ processorRef = 0
    /\ pcmBuffersRef = <<>>
    /\ captureModeRef = "null"
    /\ nStarts = 0
    /\ pc = [s \in Sessions |-> "none"]
    /\ track = [s \in Sessions |-> "none"]
    /\ rec = [s \in Sessions |-> "none"]
    /\ stopEvt = [s \in Sessions |-> FALSE]
    /\ proc = [s \in Sessions |-> "none"]
    /\ ctx = [s \in Sessions |-> "none"]
    /\ nURL = 0
    /\ liveURLs = {}
    /\ onErrorCount = 0
    /\ recStopFailed = FALSE
    /\ isPlaying = FALSE
    /\ playbackSec = 0
    /\ playbackRafIdRef = FALSE
    /\ elPaused = TRUE
    /\ elTime = 0
    /\ playAwait = FALSE
    /\ sinceEnded = FALSE
    /\ elDuration = "NaN"
    /\ durationSec = 0
    /\ seekedListeners = 0
    /\ nEncodes = 0
    /\ enc = [e \in Encodes |-> NoEncode]
    /\ onStatusChange = [status |-> "none", hasAudio |-> FALSE]
    /\ unmounted = FALSE

\* nothing captured for the encoders; 44100 is handleRecordingStop's default
InitWavIdle ==
    /\ wavChunks = <<>>
    /\ wavSampleRate = 44100
    /\ wavBuilt = FALSE
    /\ wavBytes = <<>>
    /\ vmWavBytes = <<>>

\* the component is used without maxDurationSeconds; no recording yet
InitTimerIdle ==
    /\ maxDurationSeconds = 0
    /\ elapsedSec = 0
    /\ elapsedRendered = 0
    /\ timerId = FALSE
    /\ sinceStart = 0

\* no getMp3Blob call
InitMp3Idle ==
    /\ mp3Pc = "idle"
    /\ mp3Kind = "none"
    /\ mp3Len = 0
    /\ mp3Pat = 0
    /\ mp3NumChannels = 1
    /\ leftInt16 = <<>>
    /\ rightInt16 = <<>>
    /\ mp3I = 0
    /\ mp3Calls = <<>>
    /\ mp3Chunks = <<>>
    /\ mp3Blob = <<>>
    /\ mp3Files = 0
    /\ mp3Cause = "none"

\* the host knows the duration of a blob as soon as its metadata is loaded
InitPlayerIdle == hostFinite = TRUE

Init == InitRecorder /\ InitWavIdle /\ InitMp3Idle /\ InitTimerIdle /\ InitPlayerIdle

\* ------------------------------------------------------------- helpers
\* node.disconnect() on the node a ref holds (no-op on a null ref)
Disconnected(ref) ==
    [s \in Sessions |-> IF s = ref /\ proc[s] = "connected"
                        THEN "disconnected" ELSE proc[s]]

\* audioContext.close() on the context a ref holds
Closed(ref) ==
    [s \in Sessions |-> IF s = ref /\ ctx[s] # "none" THEN "closed" ELSE ctx[s]]

\* audioContext.suspend(): a closed context stays closed
Suspended(ref) ==
    [s \in Sessions |-> IF s = ref /\ ctx[s] = "running"
                        THEN "suspended" ELSE ctx[s]]

\* stream.getTracks().forEach(t => t.stop())
TracksStopped(ref) ==
    [s \in Sessions |-> IF s = ref /\ track[s] = "live" THEN "ended" ELSE track[s]]

\* the <audio> element is rendered only in the "stopped" branch of the JSX
AudioElMounted == rendered.status = "stopped" /\ ~unmounted

\* `!isFinite(d) || d === 0`
ProbeNeeded(d) == d \in {"NaN", "Infinity", "zero"}

\* ensureFiniteDuration(el) on an element whose duration is d, with n
\* handleSeeked closures registered and its position at t: either registers
\* one more closure and sets el.currentTime = 1e7, which the element clamps to
\* its end, or calls setDurationSec(d)
ensureFiniteDuration(d, n, t) ==
    IF ProbeNeeded(d)
    THEN /\ seekedListeners' = n + 1
         /\ elTime' = MaxPos
         /\ UNCHANGED durationSec
    ELSE /\ durationSec' = MaxPos
         /\ seekedListeners' = n
         /\ elTime' = t

\* onLoadedMetadata of an <audio> element that was just attached: the blob is
\* in memory, so its metadata is there before any other event is handled
LoadedMetadata ==
    /\ elDuration' = IF hostFinite THEN "finite" ELSE "Infinity"
    /\ ensureFiniteDuration(elDuration', 0, 0)

\* onStatusChange?.(state.status, !!state.audioBlob), `state` the closure's
StatusReport(st) == [status |-> st.status, hasAudio |-> st.audioBlob # NullBlob]

\* a catch block that records the message but leaves the status
AccessDeniedKeepsStatus(st) ==
    [st EXCEPT !.errorMessage = "Microphone access denied"]

\* the catch block of requestPermissionAndStart
AccessDeniedState(st) ==
    [st EXCEPT !.status = "error", !.errorMessage = "Microphone access denied"]

\* ------------------------------------------------------------- mount
\* useEffect(checkBrowserSupport, []): the effect of the first commit; the
\* update it queues is committed before the page handles any input.  The
\* other effects of the first commit run with the first render's closure:
\* the status observer is called with the initial status.
Mount ==
    /\ ~mounted
    /\ mounted' = TRUE
    /\ state' = IF ~isSecureContext
                THEN [state EXCEPT !.status = "error",
                                   !.errorMessage = "requires HTTPS or localhost"]
                ELSE IF ~hasGetUserMedia
                THEN [state EXCEPT !.status = "error",
                                   !.errorMessage = "browser does not support audio recording"]
                ELSE state
    /\ flushPending' = TRUE
    /\ onStatusChange' = StatusReport(rendered)
    /\ UNCHANGED <<envVars, codecVars, timerVars, unmounted, probeVars, rendered, refVars, sessVars,
                   urlVars, obsVars, playVars, encVars>>

\* ------------------------------------------------------------- render
\* A commit and its effects: the cleanups of the effects whose deps changed,
\* with the previous render's closure, then their bodies in source order.
\*  - recording timer, deps [state.status]: leaving "recording" clears the
\*    interval and queues setElapsedSec(0); entering it records the start
\*    instant and registers the interval;
\*  - auto-stop, deps [elapsedSec, state.status, maxDurationSeconds]: calls
\*    stopRecording, whose closure is this render's (status "recording");
\*  - cleanup, deps [state.audioURL]: revokes the previous URL and releases
\*    what the refs hold;
\*  - observer, deps [state.status, state.audioBlob, onStatusChange].
\* An update queued by an effect is committed before any other input.
Render ==
    /\ mounted /\ ~unmounted
    /\ flushPending \/ state # rendered \/ elapsedSec # elapsedRendered
    /\ rendered' = state
    /\ elapsedRendered' = elapsedSec
    /\ LET statusChanged == state.status # rendered.status
           urlChanged == state.audioURL # rendered.audioURL
           leaving == statusChanged /\ rendered.status = "recording"
           entering == statusChanged /\ state.status = "recording"
           autoStop == /\ statusChanged \/ elapsedSec # elapsedRendered
                       /\ state.status = "recording"
                       /\ maxDurationSeconds # 0
                       /\ elapsedSec >= maxDurationSeconds
           native == captureModeRef = "mediarecorder"
           active == mediaRecorderRef # 0 /\ rec[mediaRecorderRef] = "recording"
           procC == IF urlChanged THEN Disconnected(processorRef) ELSE proc
           ctxC == IF urlChanged THEN Closed(audioContextRef) ELSE ctx
           urlsC == IF urlChanged THEN liveURLs \ {rendered.audioURL} ELSE liveURLs
           wav == [type |-> "audio/wav", parts |-> pcmBuffersRef]
       IN /\ timerId' = IF entering THEN TRUE ELSE IF leaving THEN FALSE ELSE timerId
          /\ sinceStart' = IF entering \/ leaving THEN 0 ELSE sinceStart
          /\ elapsedSec' = IF leaving THEN 0 ELSE elapsedSec
          /\ track' = IF urlChanged THEN TracksStopped(mediaStreamRef) ELSE track
          /\ IF autoStop /\ native
             THEN /\ rec' = IF active
                            THEN [rec EXCEPT ![mediaRecorderRef] = "inactive"] ELSE rec
                  /\ stopEvt' = IF active
                                THEN [stopEvt EXCEPT ![mediaRecorderRef] = TRUE]
                                ELSE stopEvt
                  /\ recStopFailed' = (recStopFailed
                                         \/ (~active /\ mediaRecorderRef # 0))
             ELSE UNCHANGED <<rec, stopEvt, recStopFailed>>
          /\ IF autoStop /\ ~native
             THEN /\ proc' = [s \in Sessions |->
                                IF s = processorRef /\ procC[s] = "connected"
                                THEN "disconnected" ELSE procC[s]]
                  /\ ctx' = [s \in Sessions |->
                               IF s = audioContextRef /\ ctxC[s] = "running"
                               THEN "suspended" ELSE ctxC[s]]
                  /\ nURL' = nURL + 1
                  /\ liveURLs' = urlsC \cup {nURL + 1}
                  /\ state' = [state EXCEPT !.audioBlob = wav, !.audioURL = nURL + 1,
                                             !.status = "stopped"]
             ELSE /\ proc' = procC
                  /\ ctx' = ctxC
                  /\ liveURLs' = urlsC
                  /\ UNCHANGED <<nURL, state>>
          /\ flushPending' = ((leaving /\ elapsedSec # 0) \/ (autoStop /\ ~native))
    /\ IF state.status = "stopped" /\ rendered.status = "stopped"
          /\ state.audioURL = rendered.audioURL
       THEN UNCHANGED <<elPaused, elTime, sinceEnded, elDuration, durationSec,
                        seekedListeners>>
       ELSE /\ elPaused' = TRUE
            /\ sinceEnded' = FALSE
            /\ IF state.status = "stopped"
               THEN LoadedMetadata
               ELSE /\ elTime' = 0
                    /\ elDuration' = "NaN"
                    /\ seekedListeners' = 0
                    /\ UNCHANGED durationSec
    /\ IF state.status # rendered.status \/ state.audioBlob # rendered.audioBlob
       THEN onStatusChange' = StatusReport(state)
       ELSE UNCHANGED onStatusChange
    /\ UNCHANGED <<envVars, codecVars, maxDurationSeconds, unmounted, hostFinite, mounted, refVars, nStarts,
                   onErrorCount, pc, isPlaying, playbackSec, playbackRafIdRef, playAwait,
                   encVars>>

\* ------------------------------------------------------------- start
\* onClick of the button of the "idle" branch: requestPermissionAndStart up
\* to its first await.  Without navigator.mediaDevices.getUserMedia the call
\* throws inside the try block and the catch block runs in the same turn.
StartClick ==
    /\ mounted /\ ~unmounted /\ ~flushPending
    /\ rendered.status = "idle"
    /\ nStarts < MaxStarts
    /\ IF hasGetUserMedia
       THEN /\ state' = [state EXCEPT !.status = "permission_pending"]
            /\ pc' = [pc EXCEPT ![nStarts + 1] = "awaitGUM"]
            /\ UNCHANGED onErrorCount
       ELSE /\ state' = AccessDeniedState(state)
            /\ pc' = [pc EXCEPT ![nStarts + 1] = "done"]
            /\ onErrorCount' = onErrorCount + 1
    /\ nStarts' = nStarts + 1
    /\ flushPending' = TRUE
    /\ UNCHANGED <<envVars, codecVars, effectVars, probeVars, mounted, rendered, refVars, track, rec, stopEvt, proc,
                   ctx, urlVars, recStopFailed, playVars, encVars>>

\* the rest of the web-audio branch: createMediaStreamSource ..
\* processor.connect(destination), then setState(recording)
EngageWebAudio(s) ==
    /\ sourceNodeRef' = s
    /\ processorRef' = s
    /\ pcmBuffersRef' = <<>>
    /\ proc' = [proc EXCEPT ![s] = "connected"]
    /\ state' = [state EXCEPT !.status = "recording"]
    /\ pc' = [pc EXCEPT ![s] = "done"]

\* getUserMedia resolves: the continuation of requestPermissionAndStart
GrantAccess(s) ==
    /\ ~flushPending
    /\ pc[s] = "awaitGUM"
    /\ mediaStreamRef' = s
    /\ track' = [track EXCEPT ![s] = "live"]
    /\ IF hasMediaRecorder
       THEN /\ rec' = [rec EXCEPT ![s] = "recording"]
            /\ mediaRecorderRef' = s
            /\ captureModeRef' = "mediarecorder"
            /\ audioChunksRef' = <<>>
            /\ state' = [state EXCEPT !.status = "recording"]
            /\ pc' = [pc EXCEPT ![s] = "done"]
            /\ UNCHANGED <<audioContextRef, sourceNodeRef, processorRef,
                           pcmBuffersRef, proc, ctx>>
       ELSE /\ captureModeRef' = "webaudio"
            /\ audioContextRef' = s
            /\ \E suspended \in BOOLEAN :
                 IF suspended
                 THEN /\ ctx' = [ctx EXCEPT ![s] = "suspended"]
                      /\ pc' = [pc EXCEPT ![s] = "awaitResume"]
                      /\ UNCHANGED <<sourceNodeRef, processorRef, pcmBuffersRef,
                                     proc, state>>
                 ELSE /\ ctx' = [ctx EXCEPT ![s] = "running"]
                      /\ EngageWebAudio(s)
            /\ UNCHANGED <<rec, mediaRecorderRef, audioChunksRef>>
    /\ UNCHANGED <<envVars, codecVars, effectVars, probeVars, mounted, rendered, flushPending, nStarts, stopEvt,
                   urlVars, obsVars, playVars, encVars>>

\* await audioContext.resume() settles (a rejection is swallowed).  On a
\* context that reset() closed meanwhile, createMediaStreamSource either
\* throws InvalidStateError (the catch block runs) or succeeds, by host.
ResumeSettled(s) ==
    /\ ~flushPending
    /\ pc[s] = "awaitResume"
    /\ \E throws \in BOOLEAN :
         /\ throws => ctx[s] = "closed"
         /\ IF throws
            THEN /\ state' = AccessDeniedState(state)
                 /\ onErrorCount' = onErrorCount + 1
                 /\ pc' = [pc EXCEPT ![s] = "done"]
                 /\ UNCHANGED <<sourceNodeRef, processorRef, pcmBuffersRef, proc, ctx>>
            ELSE /\ ctx' = [ctx EXCEPT ![s] = IF ctx[s] = "closed"
                                              THEN "closed" ELSE "running"]
                 /\ EngageWebAudio(s)
                 /\ UNCHANGED onErrorCount
    /\ UNCHANGED <<envVars, codecVars, effectVars, probeVars, mounted, rendered, flushPending, mediaRecorderRef,
                   audioChunksRef, audioContextRef, mediaStreamRef, captureModeRef,
                   nStarts, track, rec, stopEvt, urlVars, recStopFailed, playVars, encVars>>

\* getUserMedia rejects: the catch block of requestPermissionAndStart
DenyAccess(s) ==
    /\ ~flushPending
    /\ pc[s] = "awaitGUM"
    /\ pc' = [pc EXCEPT ![s] = "done"]
    /\ state' = AccessDeniedState(state)
    /\ onErrorCount' = onErrorCount + 1
    /\ UNCHANGED <<envVars, codecVars, effectVars, probeVars, mounted, rendered, flushPending, refVars, nStarts, track,
                   rec, stopEvt, proc, ctx, urlVars, recStopFailed, playVars, encVars>>

\* ------------------------------------------------------------- capture
\* processor.onaudioprocess: copy the input frame into the PCM store.  The
\* host calls it while the node is connected and the context is running.
AudioProcess(s) ==
    /\ ~flushPending
    /\ proc[s] = "connected" /\ ctx[s] = "running"
    /\ Len(pcmBuffersRef) < MaxChunks
    /\ pcmBuffersRef' = Append(pcmBuffersRef, s)
    /\ UNCHANGED <<envVars, codecVars, effectVars, probeVars, reactVars, mediaRecorderRef, audioChunksRef,
                   audioContextRef, mediaStreamRef, sourceNodeRef, processorRef,
                   captureModeRef, sessVars, urlVars, obsVars, playVars, encVars>>

\* mediaRecorder.ondataavailable: event.data of size 0 is dropped
Pushed(chunks, s, size) ==
    IF size > 0 /\ Len(chunks) < MaxChunks THEN Append(chunks, s) ELSE chunks

DataAvailable(s) ==
    /\ ~flushPending
    /\ rec[s] = "recording"
    /\ \E size \in 0..1 : audioChunksRef' = Pushed(audioChunksRef, s, size)
    /\ UNCHANGED <<envVars, codecVars, effectVars, probeVars, reactVars, mediaRecorderRef, audioContextRef,
                   mediaStreamRef, sourceNodeRef, processorRef, pcmBuffersRef,
                   captureModeRef, sessVars, urlVars, obsVars, playVars, encVars>>

\* handleRecordingStop, reading the two stores as they are when it runs.  The
\* native blob's type is audio/mp4 or audio/webm by a user-agent sniff, which
\* nothing else reads: both are the type "native" here.
handleRecordingStop(chunks, pcm) ==
    LET blob == IF captureModeRef = "mediarecorder"
                THEN [type |-> "native", parts |-> chunks]
                ELSE [type |-> "audio/wav", parts |-> pcm]
    IN /\ nURL' = nURL + 1
       /\ liveURLs' = liveURLs \cup {nURL + 1}
       /\ state' = [state EXCEPT !.audioBlob = blob, !.audioURL = nURL + 1,
                                 !.status = "stopped"]

\* stopRecording without its first line, the status guard
stopRecordingUnguarded ==
    IF captureModeRef = "mediarecorder"
    THEN /\ IF mediaRecorderRef # 0 /\ rec[mediaRecorderRef] = "recording"
            THEN /\ rec' = [rec EXCEPT ![mediaRecorderRef] = "inactive"]
                 /\ stopEvt' = [stopEvt EXCEPT ![mediaRecorderRef] = TRUE]
                 /\ UNCHANGED recStopFailed
            ELSE /\ recStopFailed' = (recStopFailed \/ mediaRecorderRef # 0)
                 /\ UNCHANGED <<rec, stopEvt>>
         /\ UNCHANGED <<proc, ctx, state, nURL, liveURLs>>
    ELSE /\ proc' = Disconnected(processorRef)
         /\ ctx' = Suspended(audioContextRef)
         /\ handleRecordingStop(audioChunksRef, pcmBuffersRef)
         /\ UNCHANGED <<rec, stopEvt, recStopFailed>>

\* stopRecording: `state.status` is the closure's, i.e. the rendered one
stopRecording ==
    IF rendered.status # "recording"
    THEN UNCHANGED <<rec, stopEvt, recStopFailed, proc, ctx, state, nURL, liveURLs>>
    ELSE IF captureModeRef = "mediarecorder"
    THEN /\ IF mediaRecorderRef # 0 /\ rec[mediaRecorderRef] = "recording"
            THEN /\ rec' = [rec EXCEPT ![mediaRecorderRef] = "inactive"]
                 /\ stopEvt' = [stopEvt EXCEPT ![mediaRecorderRef] = TRUE]
                 /\ UNCHANGED recStopFailed
            ELSE /\ recStopFailed' = (recStopFailed \/ mediaRecorderRef # 0)
                 /\ UNCHANGED <<rec, stopEvt>>
         /\ UNCHANGED <<proc, ctx, state, nURL, liveURLs>>
    ELSE /\ proc' = Disconnected(processorRef)
         /\ ctx' = Suspended(audioContextRef)
         /\ handleRecordingStop(audioChunksRef, pcmBuffersRef)
         /\ UNCHANGED <<rec, stopEvt, recStopFailed>>

\* onClick of the button of the "permission_pending" and "recording" branches
StopClick ==
    /\ mounted /\ ~unmounted /\ ~flushPending
    /\ rendered.status \in {"permission_pending", "recording"}
    /\ stopRecording
    /\ flushPending' = TRUE
    /\ UNCHANGED <<envVars, codecVars, effectVars, probeVars, mounted, rendered, refVars, nStarts, pc, track,
                   onErrorCount, playVars, encVars>>

\* The host stops a recorder whose stream has no live track left.
TracksEnded(s) ==
    /\ ~flushPending
    /\ rec[s] = "recording" /\ track[s] = "ended"
    /\ rec' = [rec EXCEPT ![s] = "inactive"]
    /\ stopEvt' = [stopEvt EXCEPT ![s] = TRUE]
    /\ UNCHANGED <<envVars, codecVars, effectVars, probeVars, reactVars, refVars, nStarts, pc, track, proc, ctx,
                   urlVars, obsVars, playVars, encVars>>

\* The task a stopped recorder queued: a last dataavailable, then
\* mediaRecorder.onstop = () => handleRecordingStop()
RecorderStopped(s) ==
    /\ ~flushPending
    /\ stopEvt[s]
    /\ stopEvt' = [stopEvt EXCEPT ![s] = FALSE]
    /\ \E size \in 0..1 :
         /\ audioChunksRef' = Pushed(audioChunksRef, s, size)
         /\ handleRecordingStop(audioChunksRef', pcmBuffersRef)
    /\ UNCHANGED <<envVars, codecVars, effectVars, probeVars, mounted, rendered, flushPending, mediaRecorderRef,
                   audioContextRef, mediaStreamRef, sourceNodeRef, processorRef,
                   pcmBuffersRef, captureModeRef, nStarts, pc, track, rec, proc,
                   ctx, obsVars, playVars, encVars>>

\* ------------------------------------------------------------- reset
\* a reset that drops the stream handle without stopping its tracks and
\* keeps the PCM store
resetKeepsStream ==
    /\ liveURLs' = liveURLs \ {rendered.audioURL}
    /\ elPaused' = TRUE
    /\ elTime' = 0
    /\ isPlaying' = FALSE
    /\ playbackSec' = 0
    /\ playbackRafIdRef' = FALSE
    /\ state' = InitialState
    /\ audioChunksRef' = <<>>
    /\ mediaRecorderRef' = 0
    /\ pcmBuffersRef' = pcmBuffersRef
    /\ proc' = Disconnected(processorRef)
    /\ ctx' = Closed(audioContextRef)
    /\ processorRef' = 0
    /\ sourceNodeRef' = 0
    /\ audioContextRef' = 0
    /\ track' = track
    /\ mediaStreamRef' = 0
    /\ captureModeRef' = "null"

\* reset(): `state.audioURL` is the closure's
reset ==
    /\ liveURLs' = liveURLs \ {rendered.audioURL}
    /\ elPaused' = TRUE
    /\ elTime' = 0
    /\ isPlaying' = FALSE
    /\ playbackSec' = 0
    /\ playbackRafIdRef' = FALSE
    /\ state' = InitialState
    /\ audioChunksRef' = <<>>
    /\ mediaRecorderRef' = 0
    /\ pcmBuffersRef' = <<>>
    /\ proc' = Disconnected(processorRef)
    /\ ctx' = Closed(audioContextRef)
    /\ processorRef' = 0
    /\ sourceNodeRef' = 0
    /\ audioContextRef' = 0
    /\ track' = TracksStopped(mediaStreamRef)
    /\ mediaStreamRef' = 0
    /\ captureModeRef' = "null"

\* reset called through the imperative handle, in any state
ResetHandle ==
    /\ mounted /\ ~unmounted /\ ~flushPending
    /\ reset
    /\ UNCHANGED <<envVars, codecVars, effectVars, probeVars, mounted, rendered, flushPending, nStarts, pc, rec,
                   stopEvt, nURL, obsVars, playAwait, sinceEnded, encVars>>

\* onClick of "Record Again" (disabled while isProcessing)
ResetClick ==
    /\ mounted /\ ~unmounted /\ ~flushPending
    /\ rendered.status = "stopped" /\ ~rendered.isProcessing
    /\ reset
    /\ flushPending' = TRUE
    /\ UNCHANGED <<envVars, codecVars, effectVars, probeVars, mounted, rendered, nStarts, pc, rec, stopEvt, nURL,
                   obsVars, playAwait, sinceEnded, encVars>>

\* ------------------------------------------------------------- playback
\* startPlaybackTicker / stopPlaybackTicker: one requestAnimationFrame id
\* handleAudioPlay (onPlay), up to its await of audioContext.resume()
AudioPlay ==
    /\ mounted /\ ~unmounted /\ ~flushPending
    /\ AudioElMounted /\ elPaused
    /\ elPaused' = FALSE
    /\ isPlaying' = TRUE
    /\ sinceEnded' = FALSE
    /\ IF audioContextRef # 0 /\ ctx[audioContextRef] = "suspended"
       THEN /\ playAwait' = TRUE
            /\ ctx' = [ctx EXCEPT ![audioContextRef] = "running"]
            /\ UNCHANGED <<playbackRafIdRef, elTime, durationSec, seekedListeners>>
       ELSE /\ playbackRafIdRef' = TRUE
            /\ ProbeNeeded(elDuration) => seekedListeners < MaxProbes
            /\ ensureFiniteDuration(elDuration, seekedListeners, elTime)
            /\ UNCHANGED <<playAwait, ctx>>
    /\ UNCHANGED <<envVars, codecVars, effectVars, hostFinite, elDuration, reactVars, refVars,
                   nStarts, pc, track, rec, stopEvt, proc, urlVars, obsVars, playbackSec,
                   encVars>>

\* handleAudioPlay after the await: startPlaybackTicker(), then
\* ensureFiniteDuration(el) if audioElRef.current is set
PlayResumed ==
    /\ ~flushPending
    /\ playAwait
    /\ playAwait' = FALSE
    /\ playbackRafIdRef' = TRUE
    /\ IF AudioElMounted
       THEN /\ ProbeNeeded(elDuration) => seekedListeners < MaxProbes
            /\ ensureFiniteDuration(elDuration, seekedListeners, elTime)
       ELSE UNCHANGED <<elTime, durationSec, seekedListeners>>
    /\ UNCHANGED <<envVars, codecVars, effectVars, hostFinite, elDuration, reactVars, refVars,
                   sessVars, urlVars, obsVars, isPlaying, playbackSec, elPaused, sinceEnded,
                   encVars>>

\* handleAudioPause (onPause)
AudioPause ==
    /\ ~flushPending
    /\ AudioElMounted /\ ~elPaused
    /\ elPaused' = TRUE
    /\ isPlaying' = FALSE
    /\ playbackRafIdRef' = FALSE
    /\ UNCHANGED <<envVars, codecVars, effectVars, probeVars, reactVars, refVars, sessVars, urlVars, obsVars,
                   playbackSec, elTime, playAwait, sinceEnded, encVars>>

\* handleAudioEnded (onEnded)
AudioEnded ==
    /\ ~flushPending
    /\ AudioElMounted /\ ~elPaused /\ elTime > 0
    /\ elPaused' = TRUE
    /\ elTime' = 0
    /\ playbackSec' = 0
    /\ isPlaying' = FALSE
    /\ playbackRafIdRef' = FALSE
    /\ sinceEnded' = TRUE
    /\ UNCHANGED <<envVars, codecVars, effectVars, probeVars, reactVars, refVars, sessVars, urlVars, obsVars,
                   playAwait, encVars>>

\* the media clock of a playing element
ElAdvance ==
    /\ ~flushPending
    /\ AudioElMounted /\ ~elPaused /\ elTime < MaxPos
    /\ elTime' = elTime + 1
    /\ UNCHANGED <<envVars, codecVars, effectVars, probeVars, reactVars, refVars, sessVars, urlVars, obsVars,
                   isPlaying, playbackSec, playbackRafIdRef, elPaused, playAwait, sinceEnded,
                   encVars>>

\* tick of startPlaybackTicker: reads the element if there is one, re-arms
Tick ==
    /\ ~flushPending
    /\ playbackRafIdRef
    /\ playbackSec' = IF AudioElMounted THEN elTime ELSE playbackSec
    /\ UNCHANGED <<envVars, codecVars, effectVars, probeVars, reactVars, refVars, sessVars, urlVars, obsVars,
                   isPlaying, playbackRafIdRef, elPaused, elTime, playAwait, sinceEnded,
                   encVars>>

\* onTimeUpdate
TimeUpdate ==
    /\ ~flushPending
    /\ AudioElMounted /\ playbackSec # elTime
    /\ playbackSec' = elTime
    /\ UNCHANGED <<envVars, codecVars, effectVars, probeVars, reactVars, refVars, sessVars, urlVars, obsVars,
                   isPlaying, playbackRafIdRef, elPaused, elTime, playAwait, sinceEnded,
                   encVars>>

\* "seeked" on the element while handleSeeked closures are registered: a seek
\* has completed, the far one or a later one that replaced it.  Every closure
\* runs once: setDurationSec(isFinite(el.duration) ? el.duration : 0), then
\* el.currentTime = 0.  Whether the seek has made the duration finite is the
\* host's.
Seeked ==
    /\ ~flushPending
    /\ AudioElMounted /\ seekedListeners > 0
    /\ \E d \in {"finite", "Infinity"} :
         /\ elDuration' = d
         /\ durationSec' = IF d = "finite" THEN MaxPos ELSE 0
    /\ elTime' = 0
    /\ seekedListeners' = 0
    /\ UNCHANGED <<envVars, codecVars, effectVars, hostFinite, reactVars, refVars, sessVars,
                   urlVars, obsVars, isPlaying, playbackSec, playbackRafIdRef, elPaused,
                   playAwait, sinceEnded, encVars>>

\* ------------------------------------------------------------- MP3 encode
\* getMp3Blob's first line: throws "No audio to process"
NoAudioToProcess == rendered.audioBlob = NullBlob

\* handleSave / uploadMp3 up to the first await of getMp3Blob; `state.audioBlob`
\* is the closure's
BeginEncode(kind) ==
    /\ nEncodes < MaxEncodes
    /\ rendered.audioBlob # NullBlob
    /\ state' = [state EXCEPT !.isProcessing = TRUE]
    /\ nEncodes' = nEncodes + 1
    /\ enc' = [enc EXCEPT ![nEncodes + 1] = [pc |-> "decoding", kind |-> kind,
                                             blob |-> rendered.audioBlob]]

\* onClick of "Save" (rendered when stopped, disabled while isProcessing)
SaveClick ==
    /\ mounted /\ ~unmounted /\ ~flushPending
    /\ rendered.status = "stopped" /\ ~rendered.isProcessing
    /\ BeginEncode("save")
    /\ flushPending' = TRUE
    /\ UNCHANGED <<envVars, codecVars, effectVars, probeVars, mounted, rendered, refVars, sessVars, urlVars, obsVars,
                   playVars>>

\* upload() called through the imperative handle
UploadHandle ==
    /\ mounted /\ ~unmounted /\ ~flushPending
    /\ BeginEncode("upload")
    /\ UNCHANGED <<envVars, codecVars, effectVars, probeVars, mounted, rendered, flushPending, refVars, sessVars,
                   urlVars, obsVars, playVars>>

\* decodeAudioData resolved
DecodeOk(e) ==
    /\ ~flushPending
    /\ enc[e].pc = "decoding"
    /\ enc' = [enc EXCEPT ![e].pc = "codec"]
    /\ UNCHANGED <<nEncodes, envVars, codecVars, effectVars, probeVars, reactVars, refVars, sessVars, urlVars, obsVars, playVars>>

\* lamejs is available: the frames are encoded and getMp3Blob returns.
\* handleSave then calls onSave(file) and clears isProcessing; uploadMp3
\* awaits onUpload(file).
CodecOk(e) ==
    /\ ~flushPending
    /\ enc[e].pc = "codec"
    /\ IF enc[e].kind = "save"
       THEN /\ enc' = [enc EXCEPT ![e] = NoEncode]
            /\ state' = [state EXCEPT !.isProcessing = FALSE]
       ELSE /\ enc' = [enc EXCEPT ![e].pc = "uploading"]
            /\ UNCHANGED state
    /\ UNCHANGED <<nEncodes, envVars, codecVars, effectVars, probeVars, mounted, rendered, flushPending, refVars, sessVars,
                   urlVars, obsVars, playVars>>

\* onUpload(file) resolved
UploadOk(e) ==
    /\ ~flushPending
    /\ enc[e].pc = "uploading"
    /\ enc' = [enc EXCEPT ![e] = NoEncode]
    /\ state' = [state EXCEPT !.isProcessing = FALSE]
    /\ UNCHANGED <<nEncodes, envVars, codecVars, effectVars, probeVars, mounted, rendered, flushPending, refVars,
                   sessVars, urlVars, obsVars, playVars>>

\* the catch block of handleSave / uploadMp3
EncodeFailedState(st) ==
    [st EXCEPT !.isProcessing = FALSE, !.status = "error",
               !.errorMessage = "encode failed"]

\* decodeAudioData rejected, lamejs could not be loaded, or the callback failed
EncodeFails(e) ==
    /\ ~flushPending
    /\ enc[e].pc \in {"decoding", "codec", "uploading"}
    /\ enc' = [enc EXCEPT ![e] = NoEncode]
    /\ state' = EncodeFailedState(state)
    /\ onErrorCount' = onErrorCount + 1
    /\ UNCHANGED <<nEncodes, envVars, codecVars, effectVars, probeVars, mounted, rendered, flushPending, refVars,
                   sessVars, urlVars, recStopFailed, playVars>>

\* ------------------------------------------------------------- spec
\* capture and encode
Capture ==
    \/ Mount
    \/ Render
    \/ StartClick
    \/ \E s \in Sessions : GrantAccess(s)
    \/ \E s \in Sessions : ResumeSettled(s)
    \/ \E s \in Sessions : DenyAccess(s)
    \/ \E s \in Sessions : AudioProcess(s)
    \/ \E s \in Sessions : DataAvailable(s)
    \/ StopClick
    \/ \E s \in Sessions : TracksEnded(s)
    \/ \E s \in Sessions : RecorderStopped(s)
    \/ ResetHandle
    \/ ResetClick

Encode ==
    \/ SaveClick
    \/ UploadHandle
    \/ \E e \in Encodes : DecodeOk(e)
    \/ \E e \in Encodes : CodecOk(e)
    \/ \E e \in Encodes : UploadOk(e)
    \/ \E e \in Encodes : EncodeFails(e)

Playback ==
    \/ AudioPlay
    \/ PlayResumed
    \/ AudioPause
    \/ AudioEnded
    \/ ElAdvance
    \/ Tick
    \/ TimeUpdate

Next == Capture \/ Encode

Spec == Init /\ [][Next]_vars

\* the same with the playback of the recorded artifact
NextAll == Capture \/ Encode \/ Playback

SpecAll == Init /\ [][NextAll]_vars

\* ------------------------------------------------------------- teardown
\* The component is removed.  React runs the cleanup of every effect with the
\* closure of the last committed render and detaches the <audio> element:
\*  - recording timer (117-121): clears the interval; its setElapsedSec(0) is
\*    dropped, the component being gone;
\*  - cleanup (145-158): revokes the URL, disconnects the nodes, closes the
\*    context and stops the tracks the refs hold.
\* No cleanup touches playbackRafIdRef.  The buttons, the handle and the
\* <audio> element are gone afterwards; the promises and the media callbacks
\* of the sessions are not.
Unmount ==
    /\ mounted /\ ~unmounted
    /\ ~flushPending
    /\ unmounted' = TRUE
    /\ timerId' = FALSE
    /\ sinceStart' = 0
    /\ liveURLs' = liveURLs \ {rendered.audioURL}
    /\ proc' = Disconnected(processorRef)
    /\ ctx' = Closed(audioContextRef)
    /\ track' = TracksStopped(mediaStreamRef)
    /\ elPaused' = TRUE
    /\ elTime' = 0
    /\ sinceEnded' = FALSE
    /\ elDuration' = "NaN"
    /\ seekedListeners' = 0
    /\ UNCHANGED <<envVars, codecVars, reactVars, refVars, nStarts, pc, rec, stopEvt, nURL,
                   obsVars, isPlaying, playbackSec, playbackRafIdRef, playAwait, encVars,
                   onStatusChange, maxDurationSeconds, elapsedSec, elapsedRendered,
                   hostFinite, durationSec>>

\* capture and playback of a component that can be removed
NextTeardown == Capture \/ Playback \/ Unmount

SpecTeardown == Init /\ [][NextTeardown]_vars

\* ------------------------------------------------------------- player
\* capture and playback on a host that can record, whether or not it reports
\* the duration of the artifact with its metadata
InitPlayer ==
    /\ InitRecorder
    /\ isSecureContext /\ hasGetUserMedia
    /\ hostFinite \in BOOLEAN
    /\ InitWavIdle
    /\ InitMp3Idle
    /\ InitTimerIdle

\* "seeked" has a listener only after a probe, which takes such a host
NextPlayer == Capture \/ Playback \/ Seeked

SpecPlayer == InitPlayer /\ [][NextPlayer]_vars

\* ------------------------------------------------------------- recording timer
MaxDuration == 1
MaxHalfSeconds == 2 * MaxDuration + 2

\* the component is used with maxDurationSeconds on a host that can record
InitTimer ==
    /\ InitRecorder
    /\ isSecureContext /\ hasGetUserMedia
    /\ maxDurationSeconds \in 1..MaxDuration
    /\ elapsedSec = 0
    /\ elapsedRendered = 0
    /\ timerId = FALSE
    /\ sinceStart = 0
    /\ InitWavIdle
    /\ InitMp3Idle
    /\ InitPlayerIdle

\* wall-clock time goes by while the interval is registered
TimePasses ==
    /\ ~flushPending
    /\ timerId
    /\ sinceStart < MaxHalfSeconds
    /\ sinceStart' = sinceStart + 1
    /\ UNCHANGED <<envVars, reactVars, refVars, sessVars, urlVars, obsVars, playVars,
                   encVars, codecVars, onStatusChange, unmounted, probeVars, maxDurationSeconds,
                   elapsedSec, elapsedRendered, timerId>>

\* the callback of window.setInterval(.., 500):
\* setElapsedSec(Math.floor((Date.now() - startedAtRef.current) / 1000))
IntervalFires ==
    /\ ~flushPending
    /\ timerId
    /\ elapsedSec' = sinceStart \div 2
    /\ UNCHANGED <<envVars, reactVars, refVars, sessVars, urlVars, obsVars, playVars,
                   encVars, codecVars, onStatusChange, unmounted, probeVars, maxDurationSeconds,
                   elapsedRendered, timerId, sinceStart>>

NextTimer == Capture \/ TimePasses \/ IntervalFires

\* React commits a queued update; the host runs the interval callback while
\* the interval is registered and the stop event of a stopped recorder, however
\* often other events are handled in between.
TimerFairness ==
    /\ WF_vars(Render)
    /\ SF_vars(IntervalFires)
    /\ \A s \in Sessions : SF_vars(RecorderStopped(s))

SpecTimer == InitTimer /\ [][NextTimer]_vars /\ TimerFairness


\* ------------------------------------------------------------- WAV encoders
\* A sample is a fixed-point number: the integer n stands for n / Scale.
Scale == 50000
MaxWavChunks == 2
MaxChunkLen == 2

\* beyond and at both ends of [-1, 1], values next to 0 and 1, and one whose
\* product with 32767 lies just below an integer
SampleValues ==
    {-2 * Scale, -Scale, -1, 0, 24897, Scale - 1, 2 * Scale}

SampleRates == {44100, 48000}

\* an input frame of onaudioprocess (4096 samples in the code) is never empty
WavChunkValues ==
    UNION {[1..n -> SampleValues] : n \in 1..MaxChunkLen}

\* integer part of a / b, b > 0, rounded toward zero (storing a float in an
\* integer typed array or DataView field)
Trunc(a, b) == IF a >= 0 THEN a \div b ELSE -((-a) \div b)

\* DataView.setUint32, setUint16 and setInt16 with littleEndian = true (the
\* sizes and rates written here are far below 2^32)
Uint32LE(v) ==
    <<v % 256, (v \div 256) % 256, (v \div 65536) % 256, (v \div 16777216) % 256>>

Uint16LE(v) ==
    LET w == v % 65536
    IN <<w % 256, (w \div 256) % 256>>

\* writeAscii of the four chunk tags
TagRIFF == <<82, 73, 70, 70>>
TagWAVE == <<87, 65, 86, 69>>
TagFmt == <<102, 109, 116, 32>>
TagData == <<100, 97, 116, 97>>

\* pcm.set(c, off) for every chunk: the chunks one after the other
RECURSIVE Flatten(_)
Flatten(chunks) ==
    IF chunks = <<>> THEN <<>> ELSE Head(chunks) \o Flatten(Tail(chunks))

\* Math.max(-1, Math.min(1, s))
Clamp(n) == IF n < -Scale THEN -Scale ELSE IF n > Scale THEN Scale ELSE n

\* s < 0 ? s * 0x8000 : s * 0x7fff, as setInt16 stores it
Quantize(n) ==
    LET s == Clamp(n)
    IN IF s < 0 THEN Trunc(s * 32768, Scale) ELSE Trunc(s * 32767, Scale)

RECURSIVE SampleBytes(_)
SampleBytes(pcm) ==
    IF pcm = <<>> THEN <<>>
    ELSE Uint16LE(Quantize(Head(pcm))) \o SampleBytes(Tail(pcm))

\* the 44 bytes both encoders write before the samples
WavHeader(nSamples, sampleRate) ==
    TagRIFF \o Uint32LE(36 + nSamples * 2) \o TagWAVE \o TagFmt
      \o Uint32LE(16) \o Uint16LE(1) \o Uint16LE(1)
      \o Uint32LE(sampleRate) \o Uint32LE(sampleRate * 2)
      \o Uint16LE(2) \o Uint16LE(16)
      \o TagData \o Uint32LE(nSamples * 2)

buildWavFromFloat32(chunks, sampleRate) ==
    LET pcm == Flatten(chunks)
    IN WavHeader(Len(pcm), sampleRate) \o SampleBytes(pcm)

\* What Float32Array.from(samples.flat()) holds for one chunk.  flat() does
\* not open a typed array, so each chunk is one element, converted with
\* ToNumber: a one-sample chunk gives its sample, any longer chunk gives
\* NaN.  A NaN passes the clamp and setInt16 stores it as 0.
ChunkToNumber(chunk) ==
    IF Len(chunk) = 1 THEN chunk[1] ELSE 0

RECURSIVE FlatFrom(_)
FlatFrom(samples) ==
    IF samples = <<>> THEN <<>>
    ELSE <<ChunkToNumber(Head(samples))>> \o FlatFrom(Tail(samples))

encodeWAV(samples, sampleRate) ==
    LET flat == FlatFrom(samples)
    IN WavHeader(Len(flat), sampleRate) \o SampleBytes(flat)

\* a capture that reports one of the sample rates
InitWav ==
    /\ InitRecorder
    /\ isSecureContext /\ hasGetUserMedia /\ ~hasMediaRecorder
    /\ wavChunks = <<>>
    /\ wavSampleRate \in SampleRates
    /\ wavBuilt = FALSE
    /\ wavBytes = <<>>
    /\ vmWavBytes = <<>>
    /\ InitMp3Idle
    /\ InitTimerIdle
    /\ InitPlayerIdle

recorderVars ==
    <<envVars, reactVars, refVars, sessVars, urlVars, obsVars, playVars, encVars,
      effectVars, probeVars>>

\* processor.onaudioprocess: push a copy of the input frame
WavAudioProcess ==
    /\ ~wavBuilt
    /\ Len(wavChunks) < MaxWavChunks
    /\ \E chunk \in WavChunkValues : wavChunks' = Append(wavChunks, chunk)
    /\ UNCHANGED <<recorderVars, mp3Vars, wavSampleRate, wavBuilt, wavBytes,
                   vmWavBytes>>

\* stop: the artifact each component builds from the store
WavStop ==
    /\ ~wavBuilt
    /\ wavBuilt' = TRUE
    /\ wavBytes' = buildWavFromFloat32(wavChunks, wavSampleRate)
    /\ vmWavBytes' = encodeWAV(wavChunks, wavSampleRate)
    /\ UNCHANGED <<recorderVars, mp3Vars, wavChunks, wavSampleRate>>

NextWav == WavAudioProcess \/ WavStop

SpecWav == InitWav /\ [][NextWav]_vars

\* reading a WAV back: little-endian fields of the byte sequence
ReadUint32(bytes, at) ==
    bytes[at + 1] + 256 * bytes[at + 2] + 65536 * bytes[at + 3]
      + 16777216 * bytes[at + 4]

ReadUint16(bytes, at) == bytes[at + 1] + 256 * bytes[at + 2]

ReadInt16(bytes, at) ==
    LET u == ReadUint16(bytes, at) IN IF u >= 32768 THEN u - 65536 ELSE u


\* ------------------------------------------------------------- getMp3Blob
\* const frame = 1152
frame == 1152

\* lengths of the decoded buffer around zero, one and two frames
Mp3Lengths == {0, 1, frame, frame + 1, 2 * frame + 1}

\* the patterns the decoded channels are filled with
MaxPat == 1

SampleSeq == <<-2 * Scale, -Scale, -1, 0, 24897, Scale - 1, 2 * Scale>>

\* audioBuffer.getChannelData(ch) of a buffer of n samples holding pattern pat
ChannelData(pat, ch, n) ==
    [i \in 1..n |-> SampleSeq[((i + pat + ch) % Len(SampleSeq)) + 1]]

\* Math.max(-32768, Math.min(32767, x * 32768)) stored in an Int16Array.
\* Beyond [-1, 1) the clamp decides, which keeps the product off the ends of
\* the integer range.
ToInt16(n) ==
    IF n >= Scale THEN 32767
    ELSE IF n <= -Scale THEN -32768
    ELSE LET y == Trunc(n * 32768, Scale)
         IN IF y > 32767 THEN 32767 ELSE y

\* a right channel that is never the left one
RightChannelOwn(pat, channels, n) == ChannelData(pat, 1, n)

\* rightChannel = numberOfChannels > 1 ? getChannelData(1) : leftChannel
RightChannel(pat, channels, n) ==
    IF channels > 1 THEN ChannelData(pat, 1, n) ELSE ChannelData(pat, 0, n)

\* a loop that submits whole frames only
MoreFramesWhole(i, n) == i + frame <= n

\* the condition of the frame loop: for (let i = 0; i < leftInt16.length; ..)
MoreFrames(i, n) == i < n

\* typedArray.subarray(i, i + frame): the end is clamped to the length
Subarray(a, i) ==
    SubSeq(a, i + 1, IF i + frame > Len(a) THEN Len(a) ELSE i + frame)

\* a join that keeps only the chunk written last
Mp3BytesLastOnly(chunks) == IF chunks = <<>> THEN <<>> ELSE chunks[Len(chunks)]

\* all.set(c, off) for every chunk of mp3Chunks
Mp3Bytes(chunks) == Flatten(chunks)

\* a decoded buffer and a caller
InitMp3 ==
    /\ InitRecorder
    /\ isSecureContext /\ hasGetUserMedia /\ hasMediaRecorder
    /\ InitTimerIdle
    /\ InitWavIdle
    /\ InitPlayerIdle
    /\ mp3Pc = "idle"
    /\ mp3Kind \in {"save", "upload", "handle"}
    /\ mp3Len \in Mp3Lengths
    /\ mp3Pat \in 0..MaxPat
    /\ mp3NumChannels \in 1..2
    /\ leftInt16 = <<>>
    /\ rightInt16 = <<>>
    /\ mp3I = 0
    /\ mp3Calls = <<>>
    /\ mp3Chunks = <<>>
    /\ mp3Blob = <<>>
    /\ mp3Files = 0
    /\ mp3Cause = "none"

\* getMp3Blob is entered with an artifact: it awaits arrayBuffer() and the decode
Mp3Begin ==
    /\ mp3Pc = "idle"
    /\ mp3Pc' = "decoding"
    /\ UNCHANGED <<recorderVars, wavVars, mp3Kind, mp3Len, mp3Pat, mp3NumChannels,
                   leftInt16, rightInt16, mp3I, mp3Calls, mp3Chunks, mp3Blob,
                   mp3Files, mp3Cause>>

\* decodeAudioData resolved: the two Int16Array are filled; next the codec
Mp3DecodeOk ==
    /\ mp3Pc = "decoding"
    /\ mp3Pc' = "codec"
    /\ leftInt16' = [i \in 1..mp3Len |-> ToInt16(ChannelData(mp3Pat, 0, mp3Len)[i])]
    /\ rightInt16' =
         [i \in 1..mp3Len |-> ToInt16(RightChannel(mp3Pat, mp3NumChannels, mp3Len)[i])]
    /\ UNCHANGED <<recorderVars, wavVars, mp3Kind, mp3Len, mp3Pat, mp3NumChannels,
                   mp3I, mp3Calls, mp3Chunks, mp3Blob, mp3Files, mp3Cause>>

\* decodeAudioData rejected: getMp3Blob throws
Mp3DecodeFails ==
    /\ mp3Pc = "decoding"
    /\ mp3Pc' = "failed"
    /\ mp3Cause' = "decode"
    /\ UNCHANGED <<recorderVars, wavVars, mp3Kind, mp3Len, mp3Pat, mp3NumChannels,
                   leftInt16, rightInt16, mp3I, mp3Calls, mp3Chunks, mp3Blob,
                   mp3Files>>

\* window.lamejs is there (or its script loaded): new lamejs.Mp3Encoder(..)
Mp3CodecOk ==
    /\ mp3Pc = "codec"
    /\ mp3Pc' = "frames"
    /\ mp3I' = 0
    /\ UNCHANGED <<recorderVars, wavVars, mp3Kind, mp3Len, mp3Pat, mp3NumChannels,
                   leftInt16, rightInt16, mp3Calls, mp3Chunks, mp3Blob, mp3Files,
                   mp3Cause>>

\* a codec that fails once frames were submitted
Mp3CodecFailsLate ==
    /\ mp3Pc = "frames" /\ mp3Calls # <<>>
    /\ mp3Pc' = "failed"
    /\ mp3Cause' = "codec"
    /\ UNCHANGED <<recorderVars, wavVars, mp3Kind, mp3Len, mp3Pat, mp3NumChannels,
                   leftInt16, rightInt16, mp3I, mp3Calls, mp3Chunks, mp3Blob,
                   mp3Files>>

\* the script failed to load (s.onerror), or left no window.lamejs
Mp3CodecFails ==
    /\ mp3Pc = "codec"
    /\ mp3Pc' = "failed"
    /\ mp3Cause' = "codec"
    /\ UNCHANGED <<recorderVars, wavVars, mp3Kind, mp3Len, mp3Pat, mp3NumChannels,
                   leftInt16, rightInt16, mp3I, mp3Calls, mp3Chunks, mp3Blob,
                   mp3Files>>

\* if (out && out.length) mp3Chunks.push(new Uint8Array(out))
PushedOutput(chunks, out) == IF Len(out) > 0 THEN Append(chunks, out) ELSE chunks

\* what an encoder operation returns: nothing, or bytes naming the operation
EncoderOutputs(k) == {<<>>, <<k>>, <<k, k + 100>>}

\* one iteration of the frame loop: encoder.encodeBuffer(left, right)
Mp3EncodeFrame ==
    /\ mp3Pc = "frames"
    /\ MoreFrames(mp3I, Len(leftInt16))
    /\ \E out \in EncoderOutputs(Len(mp3Calls) + 1) :
         /\ mp3Calls' = Append(mp3Calls, [op |-> "encodeBuffer", off |-> mp3I,
                                          left |-> Subarray(leftInt16, mp3I),
                                          right |-> Subarray(rightInt16, mp3I),
                                          out |-> out])
         /\ mp3Chunks' = PushedOutput(mp3Chunks, out)
    /\ mp3I' = mp3I + frame
    /\ UNCHANGED <<recorderVars, wavVars, mp3Pc, mp3Kind, mp3Len, mp3Pat,
                   mp3NumChannels, leftInt16, rightInt16, mp3Blob, mp3Files,
                   mp3Cause>>

\* after the loop: encoder.flush(), the chunks are joined, the Blob returned
Mp3Flush ==
    /\ mp3Pc = "frames"
    /\ ~MoreFrames(mp3I, Len(leftInt16))
    /\ \E end \in EncoderOutputs(Len(mp3Calls) + 1) :
         /\ mp3Calls' = Append(mp3Calls, [op |-> "flush", off |-> mp3I,
                                          left |-> <<>>, right |-> <<>>,
                                          out |-> end])
         /\ mp3Chunks' = PushedOutput(mp3Chunks, end)
         /\ mp3Blob' = Mp3Bytes(mp3Chunks')
    /\ mp3Pc' = "returned"
    /\ UNCHANGED <<recorderVars, wavVars, mp3Kind, mp3Len, mp3Pat, mp3NumChannels,
                   leftInt16, rightInt16, mp3I, mp3Files, mp3Cause>>

\* handleSave / uploadMp3 after the await: onSave(file) / onUpload(file)
Mp3Deliver ==
    /\ mp3Pc = "returned"
    /\ mp3Kind \in {"save", "upload"}
    /\ mp3Pc' = "delivered"
    /\ mp3Files' = mp3Files + 1
    /\ UNCHANGED <<recorderVars, wavVars, mp3Kind, mp3Len, mp3Pat, mp3NumChannels,
                   leftInt16, rightInt16, mp3I, mp3Calls, mp3Chunks, mp3Blob,
                   mp3Cause>>

NextMp3 ==
    \/ Mp3Begin
    \/ Mp3DecodeOk
    \/ Mp3DecodeFails
    \/ Mp3CodecOk
    \/ Mp3CodecFails
    \/ Mp3EncodeFrame
    \/ Mp3Flush
    \/ Mp3Deliver

SpecMp3 == InitMp3 /\ [][NextMp3]_vars

\* ------------------------------------------------------------- claims

\* C1: a start request issued while status is not idle has no effect: the
\* status is unchanged and no getUserMedia call is issued.
C1_StartRejectedOutsideIdle ==
    [][(StartClick /\ state.status # "idle")
         => /\ state' = state
            /\ onErrorCount' = onErrorCount
            /\ \A s \in Sessions : pc'[s] = "awaitGUM" => pc[s] = "awaitGUM"]_vars

\* C2: a second stopRecording arriving before the recorder's completion
\* callback and before the status change is rendered (the recorder was
\* already stopped, or the web-audio artifact was already built) changes
\* nothing: no further artifact or object URL, no stop invoked on the
\* stopped recorder.
C2_SecondStopIsNoOp ==
    [][(/\ StopClick
        /\ rendered.status = "recording"
        /\ IF captureModeRef = "mediarecorder"
           THEN /\ mediaRecorderRef # 0
                /\ rec[mediaRecorderRef] = "inactive"
                /\ track[mediaRecorderRef] = "live"
           ELSE state.status = "stopped")
         => UNCHANGED <<state, nURL, liveURLs, rec, stopEvt, recStopFailed>>]_vars

C4_BlobIffStopped ==
    (state.audioBlob # NullBlob) <=> (state.status = "stopped")

\* C5: a failed MP3 encode started from stopped leaves the status stopped and
\* the artifact and its URL in place.
C5_EncodeFailureKeepsStopped ==
    [][((\E e \in Encodes : EncodeFails(e)) /\ state.status = "stopped")
         => /\ state'.status = "stopped"
            /\ state'.audioBlob = state.audioBlob
            /\ state'.audioURL = state.audioURL]_vars

C7_ErrorTerminalUntilReset ==
    [][(state.status = "error" /\ state'.status # "error")
         => (ResetHandle \/ ResetClick)]_vars

C9_OneCaptureSession ==
    /\ Cardinality({s \in Sessions : pc[s] = "awaitGUM" \/ track[s] = "live"}) <= 1
    /\ Cardinality({s \in Sessions : rec[s] = "recording" \/ proc[s] = "connected"}) <= 1

\* C10: the status changes only along the six edges of the state machine.
C10_OnlyAllowedEdges ==
    [][state'.status # state.status
         => <<state.status, state'.status>> \in
              { <<"idle", "permission_pending">>,
                <<"permission_pending", "recording">>,
                <<"permission_pending", "error">>,
                <<"recording", "stopped">>,
                <<"stopped", "idle">>, <<"error", "idle">> }]_vars

\* C11: a web-audio capture of k chunks with N samples in all, stopped,
\* gives a WAV of 44 + 2N bytes whose header holds RIFF size 36 + 2N, one
\* channel, the sample rate, 16 bits per sample and data size 2N; all-zero
\* samples give all-zero sample bytes.  Stated for both WAV encoders.
C11_WavSizeAndHeader ==
    wavBuilt =>
      \A bytes \in {wavBytes, vmWavBytes} :
        LET N == Len(Flatten(wavChunks))
        IN /\ Len(bytes) = 44 + 2 * N
           /\ SubSeq(bytes, 1, 4) = TagRIFF
           /\ ReadUint32(bytes, 4) = 36 + 2 * N
           /\ SubSeq(bytes, 9, 12) = TagWAVE
           /\ SubSeq(bytes, 13, 16) = TagFmt
           /\ ReadUint16(bytes, 22) = 1
           /\ ReadUint32(bytes, 24) = wavSampleRate
           /\ ReadUint16(bytes, 34) = 16
           /\ SubSeq(bytes, 37, 40) = TagData
           /\ ReadUint32(bytes, 40) = 2 * N
           /\ (\A i \in 1..N : Flatten(wavChunks)[i] = 0)
                => \A j \in 45..Len(bytes) : bytes[j] = 0

\* C12: decoding either encoder's output gives as many samples as went in,
\* each stored value is in [-32768, 32767] and is trunc(c * 32768) for c < 0
\* and trunc(c * 32767) otherwise (c the clamped input), and the value read
\* back is within 1/32768 of c, whether it is divided by 32768 or by the
\* scale it was multiplied with.
C12_WavRoundTrip ==
    wavBuilt =>
      \A bytes \in {wavBytes, vmWavBytes} :
        LET pcm == Flatten(wavChunks)
            count == ReadUint32(bytes, 40) \div 2
        IN /\ count = Len(pcm)
           /\ Len(bytes) = 44 + 2 * count
           /\ \A i \in 1..count :
                LET c == Clamp(pcm[i])
                    v == ReadInt16(bytes, 44 + 2 * (i - 1))
                    d == c * 32768 - v * Scale
                    e == c * 32767 - v * Scale
                IN /\ v \in -32768..32767
                   /\ v = IF c < 0 THEN Trunc(c * 32768, Scale)
                                   ELSE Trunc(c * 32767, Scale)
                   /\ \/ (d <= Scale /\ -d <= Scale)
                      \/ (v >= 0 /\ e * 32768 <= Scale * 32767
                                 /\ -e * 32768 <= Scale * 32767)

\* C13: the encoder's flush is invoked only after the loop, once and last;
\* a call that returned made ceil(N / frame) encodeBuffer calls before it, at
\* the offsets 0, frame, 2 * frame, .., each of frame samples except a
\* shorter last one, and the submitted samples add up to N.
C13_FrameCoverage ==
    LET N == mp3Len
        nFrames == (N + frame - 1) \div frame
    IN /\ \A k \in 1..Len(mp3Calls) :
            mp3Calls[k].op = "flush" =>
              k = Len(mp3Calls) /\ mp3Pc \in {"returned", "delivered"}
       /\ mp3Pc \in {"returned", "delivered"} =>
            /\ Len(mp3Calls) = nFrames + 1
            /\ mp3Calls[nFrames + 1].op = "flush"
            /\ \A k \in 1..nFrames :
                 /\ mp3Calls[k].op = "encodeBuffer"
                 /\ mp3Calls[k].off = (k - 1) * frame
                 /\ Len(mp3Calls[k].left) <= frame
                 /\ Len(mp3Calls[k].left) >= 1
                 /\ Len(mp3Calls[k].right) = Len(mp3Calls[k].left)
                 /\ (k < nFrames => Len(mp3Calls[k].left) = frame)
            /\ Cardinality({<<k, j>> \in (1..nFrames) \X (1..frame) :
                              j <= Len(mp3Calls[k].left)}) = N

\* two whole frames and a last frame of one sample were submitted, then flush
C13_Witness ==
    /\ mp3Pc = "returned" /\ mp3Len = 2 * frame + 1
    /\ Len(mp3Calls) = 4 /\ Len(mp3Calls[3].left) = 1
    /\ mp3Calls[4].op = "flush"

\* C14: for a one-channel source the two Int16 streams are the same, and so
\* are the left and right samples of every frame handed to the encoder.
C14_MonoDuplication ==
    mp3NumChannels = 1 =>
      /\ leftInt16 = rightInt16
      /\ \A k \in 1..Len(mp3Calls) : mp3Calls[k].left = mp3Calls[k].right

\* a one-channel source of three frames with non-zero samples was encoded
C14_Witness ==
    /\ mp3NumChannels = 1 /\ mp3Pc = "returned" /\ Len(mp3Calls) = 4
    /\ \E i \in 1..Len(mp3Calls[2].left) : mp3Calls[2].left[i] # 0
    /\ \E i, j \in 1..Len(mp3Calls[2].left) : mp3Calls[2].left[i] # mp3Calls[2].left[j]

\* C17: when the decode fails or the codec cannot be obtained, no encoder
\* operation was invoked, nothing was emitted, no Blob was returned and
\* neither onSave nor onUpload was called.
C17_FailsBeforeEncoding ==
    (mp3Pc = "failed" /\ mp3Cause \in {"decode", "codec"}) =>
      /\ mp3Calls = <<>>
      /\ mp3Chunks = <<>>
      /\ mp3Blob = <<>>
      /\ mp3Files = 0

\* the codec could not be obtained for a decoded source of three frames
C17_Witness ==
    /\ mp3Pc = "failed" /\ mp3Cause = "codec" /\ mp3Kind = "save"
    /\ Len(leftInt16) = 2 * frame + 1

\* C15: onStatusChange is invoked on every transition: whenever the status
\* changes, the status being left is the one the observer was last called
\* with (by the end of that step), together with hasAudio = (audioBlob is
\* non-null); so no status the machine goes through is skipped.
C15_EveryTransitionReported ==
    [][state'.status # state.status => onStatusChange' = StatusReport(state)]_vars

\* C16: with maxDurationSeconds set, a recording whose wall-clock elapsed
\* time has reached maxDurationSeconds eventually has status stopped with an
\* artifact, under fair scheduling of the timer, the commits and the
\* recorder's stop event, with no stop request needed (unless reset()
\* discards the recording, which leaves status idle).
C16_AutoStop ==
    (state.status = "recording" /\ timerId /\ sinceStart >= 2 * maxDurationSeconds)
        ~> \/ state.status = "stopped" /\ state.audioBlob # NullBlob
           \/ state.status = "idle"

\* C18: the capture strategy is selected when device access is granted, by
\* the host's capability; while the status is recording the recorded capture
\* mode is that strategy and does not change, and a step that adds a chunk
\* adds it to the selected strategy's store and leaves the other store alone.
C18_StrategySelectedOnce ==
    [][LET selected == IF hasMediaRecorder THEN "mediarecorder" ELSE "webaudio"
       IN /\ (\E s \in Sessions : GrantAccess(s)) => captureModeRef' = selected
          /\ state.status = "recording" =>
                /\ captureModeRef = selected
                /\ state'.status = "recording" => captureModeRef' = captureModeRef
                /\ captureModeRef = "mediarecorder" => pcmBuffersRef' = pcmBuffersRef
                /\ captureModeRef = "webaudio" => audioChunksRef' = audioChunksRef]_vars

\* C19: the artifact produced at stop matches the strategy engaged at start:
\* every step that produces an artifact produces the concatenation of the
\* native chunks on a host that records with MediaRecorder, and a WAV built
\* from the PCM store on a host that records with web audio; in particular
\* the completion callback of a native recorder never produces a WAV.
C19_ArtifactMatchesStrategy ==
    [][nURL' # nURL =>
         /\ state'.audioBlob.type = IF hasMediaRecorder THEN "native" ELSE "audio/wav"
         /\ state'.audioBlob.parts = IF hasMediaRecorder THEN audioChunksRef'
                                                         ELSE pcmBuffersRef']_vars

\* C20: the payload of the finalized artifact is the chunks accumulated
\* during that recording, in arrival order: the store of the host's strategy
\* is empty when a recording starts, a step taken while recording leaves it
\* as it is or appends to its end (nothing dropped, duplicated or reordered),
\* and the artifact's parts are that store's content, all of them chunks of
\* one recording.
C20_PayloadInArrivalOrder ==
    [][LET before == IF hasMediaRecorder THEN audioChunksRef ELSE pcmBuffersRef
           after == IF hasMediaRecorder THEN audioChunksRef' ELSE pcmBuffersRef'
           parts == state'.audioBlob.parts
       IN /\ state.status # "recording" /\ state'.status = "recording"
                => after = <<>>
          /\ state.status = "recording" /\ state'.status = "recording"
                => /\ Len(before) <= Len(after)
                   /\ SubSeq(after, 1, Len(before)) = before
          /\ nURL' # nURL
                => /\ parts = IF state'.audioBlob.type = "native"
                              THEN audioChunksRef' ELSE pcmBuffersRef'
                   /\ \A i, j \in 1..Len(parts) : parts[i] = parts[j]]_vars

\* C21: the PCM store never shrinks while the status is recording and does
\* not change while the status is stopped: no audio-processing callback
\* grows it after the stop.
C21_PcmStoreFrozenOnceStopped ==
    [][/\ state.status = "recording" /\ state'.status = "recording"
             => Len(pcmBuffersRef') >= Len(pcmBuffersRef)
       /\ state.status = "stopped" /\ state'.status = "stopped"
             => pcmBuffersRef' = pcmBuffersRef]_vars

\* C22: a stop disengages the active capture strategy before the artifact is
\* built: when a step builds an artifact (and the status becomes stopped),
\* the processor the component holds is no longer connected and the recorder
\* it holds is no longer recording; and the artifact, once built, does not
\* change with the chunks that arrive later.
C22_DisengagedBeforeFinalize ==
    [][/\ nURL' # nURL =>
             /\ state'.status = "stopped"
             /\ processorRef # 0 => proc'[processorRef] # "connected"
             /\ mediaRecorderRef # 0 => rec'[mediaRecorderRef] # "recording"
       /\ (nURL' = nURL /\ state'.audioBlob # NullBlob)
             => state'.audioBlob = state.audioBlob]_vars

\* C23: whenever the status is idle no device or processing handle is held:
\* the stream, recorder, processor, source and context refs are null and no
\* acquired stream has a live track.
C23_IdleHoldsNoHandle ==
    state.status = "idle" =>
        /\ mediaStreamRef = 0 /\ mediaRecorderRef = 0 /\ processorRef = 0
        /\ sourceNodeRef = 0 /\ audioContextRef = 0
        /\ \A s \in Sessions : track[s] # "live"

\* C24: in an unsupported environment (insecure context, or no
\* getUserMedia) the mount sets the status to error, and no step ever makes
\* the status recording or creates a stream, recorder, context or node.
C24_UnsupportedNeverRecords ==
    [][(~isSecureContext \/ ~hasGetUserMedia) =>
         /\ Mount => state'.status = "error"
         /\ state'.status # "recording"
         /\ \A s \in Sessions : /\ track'[s] = "none" /\ rec'[s] = "none"
                                  /\ ctx'[s] = "none" /\ proc'[s] = "none"]_vars

\* C25: the MP3 path converts a sample to 16 bits as the WAV encoder does:
\* every element of the Int16Array getMp3Blob fills equals the integer
\* buildWavFromFloat32 writes for the same sample.
C25_SameQuantization ==
    mp3Pc \in {"codec", "frames", "returned", "delivered"} =>
        \A i \in 1..Len(leftInt16) :
            leftInt16[i] = Quantize(ChannelData(mp3Pat, 0, mp3Len)[i])

\* C26: the bytes getMp3Blob returns are the non-empty outputs of the frame
\* operations and of the flush, in emission order: each output lies at the
\* offset given by the lengths of the outputs before it, an empty output takes
\* no room, and the total length is the sum of the lengths.
C26_Mp3BytesAreTheOutputs ==
    mp3Pc \in {"returned", "delivered"} =>
        LET offset(k) == Cardinality(UNION {{<<j, i>> : i \in 1..Len(mp3Calls[j].out)}
                                             : j \in 1..(k - 1)})
        IN /\ Len(mp3Blob) = offset(Len(mp3Calls) + 1)
           /\ \A k \in 1..Len(mp3Calls) : \A i \in 1..Len(mp3Calls[k].out) :
                 mp3Blob[offset(k) + i] = mp3Calls[k].out[i]

C26_Witness ==
    /\ mp3Pc = "returned" /\ Len(mp3Calls) = 4
    /\ mp3Calls[1].out = <<1>> /\ mp3Calls[2].out = <<>>
    /\ mp3Calls[3].out = <<3, 103>> /\ mp3Calls[4].out = <<4>>
    /\ mp3Blob = <<1, 3, 103, 4>>

\* C27: the playback polling loop is stopped on pause, on end-of-playback and
\* on component teardown.  isPlaying is written true by the play handler and
\* false by the pause and end-of-playback handlers (and by reset), so a state
\* after one of those events and before the next play event is one where
\* isPlaying is false or the component is removed: no animation-frame callback
\* of the ticker is scheduled there.
C27_TickerStoppedOutsidePlay == (~isPlaying \/ unmounted) => ~playbackRafIdRef

\* C28: after an end-of-playback event is handled the playback position is 0
\* and isPlaying is false, and they stay so until the next play event on the
\* element: neither a tick of the ticker nor a position update restores a
\* non-zero position.
C28_EndedResetsPosition == sinceEnded => (playbackSec = 0 /\ ~isPlaying)

\* C29: the duration probe is one-shot and ordered.  A probe (one more
\* handleSeeked closure and a far seek) is started only on an element whose
\* duration is non-finite or zero; at most one is in flight on a loaded
\* artifact, whether metadata-loaded or play started it; the probe's
\* seek-completed step records the finalized duration, 0 if it is still
\* non-finite, and seeks back to position zero; an element whose duration is
\* finite and non-zero is not seeked and its duration is recorded.
C29_ProbeOneShotOrdered ==
    [][/\ seekedListeners' > seekedListeners
            => (ProbeNeeded(elDuration') /\ elTime' = MaxPos)
       /\ seekedListeners' <= 1
       /\ Seeked => /\ durationSec' = (IF elDuration' = "finite" THEN MaxPos ELSE 0)
                    /\ elTime' = 0
                    /\ seekedListeners' = 0
       /\ (elDuration = "NaN" /\ elDuration' = "finite")
            => (seekedListeners' = 0 /\ elTime' = 0 /\ durationSec' = MaxPos)
       /\ ((AudioPlay \/ PlayResumed) /\ ~playAwait' /\ AudioElMounted
             /\ elDuration = "finite")
            => /\ seekedListeners' = seekedListeners
               /\ elTime' = elTime
               /\ durationSec' = MaxPos]_vars

\* C30: no artifact is produced for a session that reset() discarded.  Once
\* the component is mounted, status idle is what reset() leaves: it stays idle
\* with a null audioBlob until a start request, whatever callback of a
\* discarded session is delivered; and the completion callback of a recorder
\* that is no longer the one in mediaRecorderRef produces no artifact.
C30_DiscardedSessionProducesNothing ==
    [][/\ (mounted /\ state.status = "idle")
            => (StartClick \/ (state'.status = "idle" /\ state'.audioBlob = NullBlob))
       /\ \A s \in Sessions :
            (RecorderStopped(s) /\ mediaRecorderRef # s) => nURL' = nURL]_vars

\* C31: the max-duration auto-stop issues the stop at most once per
\* recording.  A commit whose auto-stop effect calls stopRecording on the
\* native path (status recording, elapsedSec at or past maxDurationSeconds,
\* one of the effect's deps changed) while the recorder in mediaRecorderRef
\* was already stopped by an earlier automatic or explicit stop (it is
\* inactive, its tracks still live) invokes nothing: no stop on the stopped
\* recorder, no second stop event, no artifact.
C31_AutoStopOnce ==
    [][(/\ Render
        /\ state.status = "recording"
        /\ maxDurationSeconds # 0 /\ elapsedSec >= maxDurationSeconds
        /\ state.status # rendered.status \/ elapsedSec # elapsedRendered
        /\ captureModeRef = "mediarecorder"
        /\ mediaRecorderRef # 0
        /\ rec[mediaRecorderRef] = "inactive"
        /\ track[mediaRecorderRef] = "live")
         => /\ recStopFailed' = recStopFailed
            /\ UNCHANGED <<rec, stopEvt, nURL, state>>]_vars

\* C32: a playback ticker callback is scheduled only while isPlaying is true;
\* in particular a pause or ended event handled while handleAudioPlay waits
\* for the audio context to resume leaves no ticker running after it.  (The
\* scheduled callback is the one whose id playbackRafIdRef holds, so there is
\* never more than one.)
C32_TickerOnlyWhilePlaying == playbackRafIdRef => isPlaying

\* C33: object URLs are neither leaked nor used after revocation: at most one
\* created URL is unrevoked, there is one exactly when audioURL is non-null,
\* and the URL in audioURL has not been revoked.
C33_OneLiveObjectURL ==
    /\ Cardinality(liveURLs) <= 1
    /\ (Cardinality(liveURLs) = 1) <=> (state.audioURL # 0)
    /\ state.audioURL # 0 => state.audioURL \in liveURLs

\* C34: an encode started for one recording does not affect the state after
\* that recording was reset.  While an encode is in flight for an artifact
\* that is no longer the one in audioBlob, its completion hands no file to
\* onSave / onUpload (which CodecOk does) and its completion or failure
\* leaves status, errorMessage and audioBlob as they are; and whenever no
\* encode is in flight isProcessing is false.
C34_EncodeOfDiscardedRecording ==
    [][/\ \A e \in Encodes :
            (enc[e].pc # "none" /\ enc[e].blob # state.audioBlob)
              => /\ ~CodecOk(e)
                 /\ (UploadOk(e) \/ EncodeFails(e))
                      => /\ state'.status = state.status
                         /\ state'.errorMessage = state.errorMessage
                         /\ state'.audioBlob = state.audioBlob
       /\ (\A e \in Encodes : enc'[e].pc = "none") => ~state'.isProcessing]_vars

====
